---- MODULE Spec2Model ----
(***************************************************************************)
(* Model of versioduo/range (src/range.ino): the configuration import and  *)
(* export of the Device, the USB / Plug / Socket MIDI routing, and the     *)
(* port arithmetic of a chain of such devices.                             *)
(***************************************************************************)
EXTENDS Integers, Sequences, FiniteSets, TLC

VARIABLES
  config,        \* Device::config, the record written to EEPROM
  imports,       \* number of importConfiguration() calls so far
  doc,           \* the document a configuration tool sends repeatedly
  usbConnected,  \* Device.usb.midi.connected()
  midiBuf,       \* MIDI::_midi, the packet buffer of the USB dispatcher
  linkBuf,       \* Link::_midi, the packet buffer of the link dispatcher
  lastIn,        \* the packet the last handler received, and where from
  usbOut,        \* packets the last handler sent with Device.usb.midi.send()
  socketOut,     \* packets the last handler sent with Socket.send()
  plugOut,       \* packets the last handler sent with Plug.send()
  dispatched,    \* packets the last handler gave to Device.dispatch()
  nextId,        \* number of packets received so far (packet identity)
  dropped,       \* ids of Socket MIDI packets received while USB was down
  chain,         \* a packet travelling down and up a chain of devices
  hw,            \* setup done, on-board LED, LED brightness, sensor enable
                 \* state, and whether Device::reset() ran since the last enable
  lastUpdate,    \* the last sensor update: its step and the configuration then
  sendOrder,     \* transports the last Device::handleSend() used, in order
  cycle          \* the position of loop() in its scheduling cycle

configVars == <<config, imports, doc>>
routeVars  == <<usbConnected, midiBuf, linkBuf, lastIn, usbOut, socketOut,
                plugOut, dispatched, nextId, dropped>>
deviceVars == <<hw, lastUpdate, sendOrder>>
vars       == <<config, imports, doc, usbConnected, midiBuf, linkBuf, lastIn,
                usbOut, socketOut, plugOut, dispatched, nextId, dropped,
                chain, hw, lastUpdate, sendOrder, cycle>>

----------------------------------------------------------------------------
(* Bounds of the model.                                                    *)

MaxImports == 2
MaxPackets == 2
MaxN       == 14
MaxCycles  == 3

----------------------------------------------------------------------------
(* Configuration: Device::config, importConfiguration, exportConfiguration *)

Null           == -1      \* a key that is missing from the JSON document
MaxDistance    == 3000
DefaultMin     == 10
DefaultMax     == 500
DefaultDetect  == 600
MaxChannel     == 16
MaxController  == 127
GeneralPurpose1 == 16

\* Values a document may carry for each key.
ChannelInputs    == {0, 5, 200}
ControllerInputs == {12, 127, 200}
RangeInputs      == {0, 50, 1000, 3000, 3001}

\* JsonVariant to uint8_t / uint16_t: a missing key reads as 0.  The inputs
\* above are all within the width of the type they are read into.
AsU8(v)  == IF v = Null THEN 0 ELSE v % 256
AsU16(v) == IF v = Null THEN 0 ELSE v % 65536

DefaultConfig ==
  [channel    |-> 0,
   controller |-> GeneralPurpose1,
   range      |-> [n_steps |-> 128, min |-> 10, max |-> 500, detect |-> 600,
                   alpha |-> "0.7", lag |-> "0.008"]]

\* The documents handed to importConfiguration.  midi / range tell whether
\* the nested object is present; a nested key of a missing object is Null.
Docs ==
  { [midi |-> m, channel |-> ch, controller |-> ct,
     range |-> r, min |-> mn, max |-> mx, detect |-> dt] :
      m \in BOOLEAN, ch \in ChannelInputs \cup {Null},
      ct \in ControllerInputs \cup {Null},
      r \in BOOLEAN, mn \in RangeInputs \cup {Null},
      mx \in RangeInputs \cup {Null}, dt \in RangeInputs \cup {Null} }

WellFormedDoc(json) ==
  /\ (~json.midi => json.channel = Null)
  /\ (~json.range => json.min = Null /\ json.max = Null /\ json.detect = Null)

Documents == { json \in Docs : WellFormedDoc(json) }

\* Variant: a channel above 16 is not clamped.
importChannelNoUpperClamp(cfg, json) ==
  IF json.midi /\ json.channel # Null
    THEN LET channel == AsU8(json.channel)
         IN  IF channel < 1 THEN 0 ELSE channel - 1
    ELSE cfg.channel

\* The midi.channel block of importConfiguration.
importChannel(cfg, json) ==
  IF json.midi /\ json.channel # Null
    THEN LET channel == AsU8(json.channel)
         IN  IF channel < 1 THEN 0
             ELSE IF channel > MaxChannel THEN 15
             ELSE channel - 1
    ELSE cfg.channel

\* Variant: a controller above 127 is stored as given.
importControllerNoClamp(cfg, json) ==
  IF json.controller # Null THEN AsU8(json.controller) ELSE cfg.controller

\* Variant: a missing controller key puts the default controller back.
importControllerResetsMissing(cfg, json) ==
  IF json.controller # Null
    THEN LET controller == AsU8(json.controller)
         IN  IF controller > MaxController THEN MaxController ELSE controller
    ELSE GeneralPurpose1

\* The controller block of importConfiguration.
importController(cfg, json) ==
  IF json.controller # Null
    THEN LET controller == AsU8(json.controller)
         IN  IF controller > MaxController THEN MaxController ELSE controller
    ELSE cfg.controller

\* importRange with max compared to the stored min instead of the new one.
importRangeStoredMin(cfg, json) ==
  IF json.range
    THEN LET min0 == AsU16(json.min)
             min  == IF min0 = 0 \/ min0 > MaxDistance THEN DefaultMin ELSE min0
             max0 == AsU16(json.max)
             max  == IF max0 < cfg.range.min \/ max0 > MaxDistance
                       THEN DefaultMax ELSE max0
             det0 == AsU16(json.detect)
             det  == IF det0 < max \/ max > MaxDistance
                       THEN DefaultDetect ELSE det0
         IN  [cfg.range EXCEPT !.min = min, !.max = max, !.detect = det]
    ELSE cfg.range

\* Variant: max has no upper limit.
importRangeNoMaxLimit(cfg, json) ==
  IF json.range
    THEN LET min0 == AsU16(json.min)
             min  == IF min0 = 0 \/ min0 > MaxDistance THEN DefaultMin ELSE min0
             max0 == AsU16(json.max)
             max  == IF max0 < min THEN DefaultMax ELSE max0
             det0 == AsU16(json.detect)
             det  == IF det0 < max \/ max > MaxDistance
                       THEN DefaultDetect ELSE det0
         IN  [cfg.range EXCEPT !.min = min, !.max = max, !.detect = det]
    ELSE cfg.range

\* Variant: a key missing from the range block keeps the stored value.
importRangeKeepsMissing(cfg, json) ==
  IF json.range
    THEN LET min0 == IF json.min = Null THEN cfg.range.min ELSE AsU16(json.min)
             min  == IF min0 = 0 \/ min0 > MaxDistance THEN DefaultMin ELSE min0
             max0 == IF json.max = Null THEN cfg.range.max ELSE AsU16(json.max)
             max  == IF max0 < min \/ max0 > MaxDistance
                       THEN DefaultMax ELSE max0
             det0 == IF json.detect = Null THEN cfg.range.detect
                                           ELSE AsU16(json.detect)
             det  == IF det0 < max \/ max > MaxDistance
                       THEN DefaultDetect ELSE det0
         IN  [cfg.range EXCEPT !.min = min, !.max = max, !.detect = det]
    ELSE cfg.range

\* The range block of importConfiguration: min, max, detect in this order.
importRange(cfg, json) ==
  IF json.range
    THEN LET min0 == AsU16(json.min)
             min  == IF min0 = 0 \/ min0 > MaxDistance THEN DefaultMin ELSE min0
             max0 == AsU16(json.max)
             max  == IF max0 < min \/ max0 > MaxDistance
                       THEN DefaultMax ELSE max0
             det0 == AsU16(json.detect)
             det  == IF det0 < max \/ max > MaxDistance
                       THEN DefaultDetect ELSE det0
         IN  [cfg.range EXCEPT !.min = min, !.max = max, !.detect = det]
    ELSE cfg.range

importConfiguration(cfg, json) ==
  [channel    |-> importChannel(cfg, json),
   controller |-> importController(cfg, json),
   range      |-> importRange(cfg, json)]

\* exportConfiguration with the channel written as stored, zero-based.
exportConfigurationZeroBased(cfg) ==
  [midi |-> TRUE, channel |-> cfg.channel, controller |-> cfg.controller,
   range |-> TRUE, min |-> cfg.range.min, max |-> cfg.range.max,
   detect |-> cfg.range.detect]

\* The values of the document exportConfiguration writes (the # keys are
\* descriptions that importConfiguration does not read).
exportConfiguration(cfg) ==
  [midi |-> TRUE, channel |-> cfg.channel + 1, controller |-> cfg.controller,
   range |-> TRUE, min |-> cfg.range.min, max |-> cfg.range.max,
   detect |-> cfg.range.detect]

\* A document with no key at all.
EmptyDocument ==
  [midi |-> FALSE, channel |-> Null, controller |-> Null,
   range |-> FALSE, min |-> Null, max |-> Null, detect |-> Null]

InitConfig ==
  /\ config = DefaultConfig
  /\ imports = 0
  /\ doc = EmptyDocument

\* Device::importConfiguration(json)
Import(json) ==
  /\ imports < MaxImports
  /\ config' = importConfiguration(config, json)
  /\ imports' = imports + 1
  /\ UNCHANGED <<doc, routeVars, chain, deviceVars, cycle>>

----------------------------------------------------------------------------
(* Routing: MIDI::loop, Link::receivePlug, Link::receiveSocket             *)

Terminator == 15          \* the reserved link address 0x0f

Ports     == 0 .. 15      \* the 4-bit port field of a USB MIDI packet
Addresses == 0 .. 15      \* the 4-bit address field of a link packet
LinkPorts == {5}          \* port field of the MIDI packet inside a link packet
Data      == {"cc", "note"}          \* the MIDI message a packet carries

\* V2MIDI::Packet _midi{}: a zeroed packet that no reception has filled.
EmptyPacket == [id |-> 0, port |-> 0, data |-> "none"]

MidiPackets(id) == { [id |-> id, port |-> p, data |-> d] : p \in Ports, d \in Data }

\* Packets of a link port: MIDI packets of every address, and one packet of
\* another type (its content is not looked at).
LinkPackets(id) ==
  { [type |-> "MIDI", address |-> a, midi |-> [id |-> id, port |-> p, data |-> d]] :
      a \in Addresses, p \in LinkPorts, d \in Data }
  \cup { [type |-> "other", address |-> 0,
          midi |-> [id |-> id, port |-> 0, data |-> "none"]] }

\* V2MIDI::Packet::setPort(): the port is a 4-bit field.
setPort(midi, port) == [midi EXCEPT !.port = port % 16]

\* What one run of a handler does: the final content of its packet buffer and
\* the calls it made, in order.
Effect(buf, usb, socket, dispatch) ==
  [buf |-> buf, usb |-> usb, socket |-> socket, dispatch |-> dispatch]

\* Variant: the packet is forwarded with its port as received.
loopNoDecrement(midi) ==
  IF midi.port = 0
    THEN Effect(midi, <<>>, <<>>, <<[transport |-> "usb", midi |-> midi]>>)
    ELSE Effect(midi, <<>>, <<midi>>, <<>>)

\* MIDI::loop() once Device.usb.midi.receive(&_midi) has returned a packet.
loop(midi) ==
  IF midi.port = 0
    THEN Effect(midi, <<>>, <<>>, <<[transport |-> "usb", midi |-> midi]>>)
    ELSE LET m == setPort(midi, midi.port - 1)
         IN  Effect(m, <<>>, <<m>>, <<>>)

\* Variant: the packet is also forwarded to the Socket.
receivePlugForwards(buf, packet) ==
  IF packet.type = "MIDI"
    THEN Effect(packet.midi, <<>>, <<packet.midi>>,
                <<[transport |-> "plug", midi |-> packet.midi]>>)
    ELSE Effect(buf, <<>>, <<>>, <<>>)

\* Link::receivePlug(packet)
receivePlug(buf, packet) ==
  IF packet.type = "MIDI"
    THEN Effect(packet.midi, <<>>, <<>>,
                <<[transport |-> "plug", midi |-> packet.midi]>>)
    ELSE Effect(buf, <<>>, <<>>, <<>>)

\* Variant: no test for the terminator address.
receiveSocketNoTerminator(buf, packet, connected) ==
  IF packet.type = "MIDI"
    THEN IF connected
           THEN LET m == setPort(packet.midi, packet.address + 1)
                IN  Effect(m, <<m>>, <<>>, <<>>)
           ELSE Effect(buf, <<>>, <<>>, <<>>)
    ELSE Effect(buf, <<>>, <<>>, <<>>)

\* Variant: no test for the USB connection.
receiveSocketNoConnected(buf, packet, connected) ==
  IF packet.type = "MIDI"
    THEN IF packet.address = Terminator
           THEN Effect(buf, <<>>, <<>>, <<>>)
           ELSE LET m == setPort(packet.midi, packet.address + 1)
                IN  Effect(m, <<m>>, <<>>, <<>>)
    ELSE Effect(buf, <<>>, <<>>, <<>>)

\* Variant: the address is used as the port, without the increment.
receiveSocketSamePort(buf, packet, connected) ==
  IF packet.type = "MIDI"
    THEN IF packet.address = Terminator
           THEN Effect(buf, <<>>, <<>>, <<>>)
           ELSE IF connected
                  THEN LET m == setPort(packet.midi, packet.address)
                       IN  Effect(m, <<m>>, <<>>, <<>>)
                  ELSE Effect(buf, <<>>, <<>>, <<>>)
    ELSE Effect(buf, <<>>, <<>>, <<>>)

\* Link::receiveSocket(packet)
receiveSocket(buf, packet, connected) ==
  IF packet.type = "MIDI"
    THEN IF packet.address = Terminator
           THEN Effect(buf, <<>>, <<>>, <<>>)
           ELSE IF connected
                  THEN LET m == setPort(packet.midi, packet.address + 1)
                       IN  Effect(m, <<m>>, <<>>, <<>>)
                  ELSE Effect(buf, <<>>, <<>>, <<>>)
    ELSE Effect(buf, <<>>, <<>>, <<>>)

NoInput == [src |-> "none", usb |-> FALSE, type |-> "none", address |-> 0,
            midi |-> EmptyPacket]

InitRoute ==
  /\ usbConnected = FALSE
  /\ midiBuf = EmptyPacket
  /\ linkBuf = EmptyPacket
  /\ lastIn = NoInput
  /\ usbOut = <<>>
  /\ socketOut = <<>>
  /\ plugOut = <<>>
  /\ dispatched = <<>>
  /\ nextId = 0
  /\ dropped = {}

\* The host opens or closes the USB MIDI connection.
UsbConnect ==
  /\ ~usbConnected
  /\ usbConnected' = TRUE
  /\ UNCHANGED <<midiBuf, linkBuf, lastIn, usbOut, socketOut, plugOut,
                 dispatched, nextId, dropped, configVars, chain, deviceVars, cycle>>

UsbDisconnect ==
  /\ usbConnected
  /\ usbConnected' = FALSE
  /\ UNCHANGED <<midiBuf, linkBuf, lastIn, usbOut, socketOut, plugOut,
                 dispatched, nextId, dropped, configVars, chain, deviceVars, cycle>>

\* MIDI.loop() with a packet pending on USB
MIDILoop(midi) ==
  LET e == loop(midi) IN
  /\ nextId < MaxPackets
  /\ midi.id = nextId + 1
  /\ nextId' = nextId + 1
  /\ lastIn' = [src |-> "usb", usb |-> usbConnected, type |-> "MIDI",
                address |-> 0, midi |-> midi]
  /\ midiBuf' = e.buf
  /\ usbOut' = e.usb
  /\ socketOut' = e.socket
  /\ plugOut' = <<>>
  /\ dispatched' = e.dispatch
  /\ UNCHANGED <<usbConnected, linkBuf, dropped, configVars, chain, deviceVars, cycle>>

\* Link.loop() with a packet pending on the Plug port
LinkReceivePlug(packet) ==
  LET e == receivePlug(linkBuf, packet) IN
  /\ nextId < MaxPackets
  /\ packet.midi.id = nextId + 1
  /\ nextId' = nextId + 1
  /\ lastIn' = [src |-> "plug", usb |-> usbConnected, type |-> packet.type,
                address |-> packet.address, midi |-> packet.midi]
  /\ linkBuf' = e.buf
  /\ usbOut' = e.usb
  /\ socketOut' = e.socket
  /\ plugOut' = <<>>
  /\ dispatched' = e.dispatch
  /\ UNCHANGED <<usbConnected, midiBuf, dropped, configVars, chain, deviceVars, cycle>>

\* Link.loop() with a packet pending on the Socket port
LinkReceiveSocket(packet) ==
  LET e == receiveSocket(linkBuf, packet, usbConnected) IN
  /\ nextId < MaxPackets
  /\ packet.midi.id = nextId + 1
  /\ nextId' = nextId + 1
  /\ lastIn' = [src |-> "socket", usb |-> usbConnected, type |-> packet.type,
                address |-> packet.address, midi |-> packet.midi]
  /\ linkBuf' = e.buf
  /\ usbOut' = e.usb
  /\ socketOut' = e.socket
  /\ plugOut' = <<>>
  /\ dispatched' = e.dispatch
  /\ dropped' = IF packet.type = "MIDI" /\ ~usbConnected
                  THEN dropped \cup {packet.midi.id} ELSE dropped
  /\ UNCHANGED <<usbConnected, midiBuf, configVars, chain, deviceVars, cycle>>

----------------------------------------------------------------------------
(* A packet relayed down a chain of devices and bubbled back up.           *)

IdleChain == [n |-> 0, k |-> 0, down |-> 0, up |-> 0, lost |-> FALSE,
              midi |-> EmptyPacket]

InitChain ==
  chain \in { [n |-> n, k |-> k, down |-> 0, up |-> 0, lost |-> FALSE,
               midi |-> [id |-> 0, port |-> n, data |-> d]] :
                n \in 0 .. MaxN, k \in 0 .. MaxN, d \in Data }
  /\ chain.k <= chain.n

\* The device at depth chain.down receives the packet from its host side and
\* runs MIDI::loop on it.
HopDown ==
  LET e == loop(chain.midi) IN
  /\ ~chain.lost
  /\ chain.down < chain.k
  /\ chain' = IF e.socket # <<>>
                THEN [chain EXCEPT !.down = @ + 1, !.midi = e.socket[1]]
                ELSE [chain EXCEPT !.lost = TRUE]
  /\ UNCHANGED <<configVars, routeVars, deviceVars, cycle>>

\* The device above receives the packet on its Socket, with the packet's port
\* as the link address, and runs Link::receiveSocket on it.
HopUp(connected) ==
  LET e == receiveSocket(EmptyPacket,
                         [type |-> "MIDI", address |-> chain.midi.port,
                          midi |-> chain.midi], connected) IN
  /\ ~chain.lost
  /\ chain.down = chain.k
  /\ chain.up < chain.k
  /\ chain' = IF e.usb # <<>>
                THEN [chain EXCEPT !.up = @ + 1, !.midi = e.usb[1]]
                ELSE [chain EXCEPT !.lost = TRUE]
  /\ UNCHANGED <<configVars, routeVars, deviceVars, cycle>>

----------------------------------------------------------------------------
(* Device and sensor: setup, Device::reset, handleControlChange,           *)
(* handleSystemReset, handleSend, ProximitySensor::handleUpdate            *)

AllSoundOff == 120        \* V2MIDI::CC::AllSoundOff
AllNotesOff == 123        \* V2MIDI::CC::AllNotesOff

Controllers == {7, AllSoundOff, AllNotesOff}   \* controllers of incoming CCs
Steps       == {0, 42, 127}                  \* step < n_steps of an update
Fractions   == {"0.0", "0.5", "1.0"}         \* fraction of an update

\* The hardware before setup(): the sensor is not enabled, the level of the
\* on-board LED pin is not known.
BootHardware ==
  { [started |-> FALSE, onboard |-> o, brightness |-> "0.0",
     sensor |-> FALSE, inReset |-> FALSE] : o \in {"LOW", "HIGH"} }

\* Variant: the reset also disables the sensor.
resetDisablesSensor(h) ==
  [h EXCEPT !.onboard = "LOW", !.brightness = "0.0", !.sensor = FALSE,
            !.inReset = TRUE]

\* Device::reset(): digitalWrite(PIN_LED_ONBOARD, LOW); LED.reset()
reset(h) ==
  [h EXCEPT !.onboard = "LOW", !.brightness = "0.0", !.inReset = TRUE]

\* ProximitySensor::reset(): disable(); enable()
sensorReset(h) == [h EXCEPT !.sensor = TRUE, !.inReset = FALSE]

\* setup(): ... Range.begin(); Range.reset(); Device.begin(); Device.reset()
setup(h) == reset(sensorReset([h EXCEPT !.started = TRUE]))

\* Device::handleControlChange(channel, controller, value)
handleControlChange(h, controller) ==
  IF controller \in {AllSoundOff, AllNotesOff} THEN reset(h) ELSE h

\* Device::handleSystemReset()
handleSystemReset(h) == reset(h)

\* Variant: the packet goes to the USB endpoint only when it is connected.
handleSendIfConnected(midi, connected) ==
  IF connected
    THEN [usb |-> <<midi>>, plug |-> <<midi>>, socket |-> <<>>,
          order |-> <<"usb", "plug">>]
    ELSE [usb |-> <<>>, plug |-> <<midi>>, socket |-> <<>>,
          order |-> <<"plug">>]

\* Device::handleSend(midi): usb.midi.send(midi); Plug.send(midi).  It does
\* not look at the USB connection, which is a parameter here to say so.
handleSend(midi, connected) ==
  [usb |-> <<midi>>, plug |-> <<midi>>, socket |-> <<>>,
   order |-> <<"usb", "plug">>]

\* V2MIDI::Packet::setControlChange(channel, controller, value) on the
\* zeroed packet of the sensor.
setControlChange(channel, controller, value) ==
  [id |-> 0, port |-> 0,
   data |-> [type |-> "cc", channel |-> channel, controller |-> controller,
             value |-> value]]

\* Variant: the event is built with the default channel and controller.
handleUpdateDefaults(cfg, h, step, fraction, connected) ==
  [hw   |-> [h EXCEPT !.brightness = fraction],
   sent |-> handleSend(setControlChange(DefaultConfig.channel,
                                        DefaultConfig.controller, step),
                       connected)]

\* ProximitySensor::handleUpdate(step, fraction, distance, count)
handleUpdate(cfg, h, step, fraction, connected) ==
  [hw   |-> [h EXCEPT !.brightness = fraction],
   sent |-> handleSend(setControlChange(cfg.channel, cfg.controller, step),
                       connected)]

NoUpdate == [step |-> 0, fraction |-> "0.0", config |-> DefaultConfig,
             sensor |-> FALSE, inReset |-> FALSE]

\* The device once setup() has run.
InitDevice ==
  /\ hw = setup([started |-> FALSE, onboard |-> "LOW", brightness |-> "0.0",
                 sensor |-> FALSE, inReset |-> FALSE])
  /\ lastUpdate = NoUpdate
  /\ sendOrder = <<>>

\* setup()
Setup ==
  /\ ~hw.started
  /\ hw' = setup(hw)
  /\ UNCHANGED <<lastUpdate, sendOrder, configVars, routeVars, chain, cycle>>

\* Range.loop() with a new reading: the driver calls handleUpdate, which it
\* does only while the sensor is enabled.
SensorUpdate(step, fraction) ==
  LET e == handleUpdate(config, hw, step, fraction, usbConnected) IN
  /\ hw.started
  /\ hw.sensor
  /\ hw' = e.hw
  /\ lastUpdate' = [step |-> step, fraction |-> fraction, config |-> config,
                     sensor |-> hw.sensor, inReset |-> hw.inReset]
  /\ lastIn' = [NoInput EXCEPT !.src = "sensor", !.usb = usbConnected]
  /\ usbOut' = e.sent.usb
  /\ plugOut' = e.sent.plug
  /\ socketOut' = e.sent.socket
  /\ sendOrder' = e.sent.order
  /\ dispatched' = <<>>
  /\ UNCHANGED <<usbConnected, midiBuf, linkBuf, nextId, dropped, configVars,
                 chain, cycle>>

\* A reply of the device, sent with Device.send().
Replies == { [id |-> 0, port |-> 0, data |-> [type |-> "reply"]] }

DeviceSend(midi) ==
  LET e == handleSend(midi, usbConnected) IN
  /\ hw.started
  /\ lastIn' = [NoInput EXCEPT !.src = "device", !.usb = usbConnected,
                               !.midi = midi]
  /\ usbOut' = e.usb
  /\ plugOut' = e.plug
  /\ socketOut' = e.socket
  /\ sendOrder' = e.order
  /\ dispatched' = <<>>
  /\ UNCHANGED <<hw, lastUpdate, usbConnected, midiBuf, linkBuf, nextId,
                 dropped, configVars, chain, cycle>>

\* The dispatcher calls handleControlChange for a control change.
ControlChange(controller) ==
  /\ hw.started
  /\ hw' = handleControlChange(hw, controller)
  /\ UNCHANGED <<lastUpdate, sendOrder, configVars, routeVars, chain, cycle>>

\* The dispatcher calls handleSystemReset for a system reset.
SystemReset ==
  /\ hw.started
  /\ hw' = handleSystemReset(hw)
  /\ UNCHANGED <<lastUpdate, sendOrder, configVars, routeVars, chain, cycle>>

----------------------------------------------------------------------------
(* The scheduling cycle: loop()                                            *)

\* The components loop() services, in the order of its calls.
CycleOrder == <<"LED", "MIDI", "Link", "Range", "Device">>

\* Variant: one idle component is enough to sleep.
sleepsEither(linkIdle, deviceIdle) == linkIdle \/ deviceIdle

\* if (Link.idle() && Device.idle()) Device.sleep();
sleeps(linkIdle, deviceIdle) == linkIdle /\ deviceIdle

NoCheck == [linkIdle |-> FALSE, deviceIdle |-> FALSE, serviced |-> <<>>]

\* The start of a cycle; slept and checked tell what the end of the cycle
\* before did.
StartOfCycle(l, d) ==
  [pc |-> 1, serviced |-> <<>>, linkIdle |-> l, deviceIdle |-> d,
   slept |-> FALSE, checked |-> NoCheck, n |-> 0]

InitCycle == cycle = StartOfCycle(TRUE, TRUE)

\* One call of loop() to a component.  What the component does is not
\* looked at here, only that the link and the device may be idle or not
\* after it.
Service(name, l, d) ==
  /\ cycle.pc \in DOMAIN CycleOrder
  /\ CycleOrder[cycle.pc] = name
  /\ cycle.n < MaxCycles
  /\ cycle' = [cycle EXCEPT !.pc = @ + 1, !.serviced = Append(@, name),
                            !.linkIdle = l, !.deviceIdle = d]
  /\ UNCHANGED <<configVars, routeVars, chain, deviceVars>>

LEDService(l, d)    == Service("LED", l, d)
MIDIService(l, d)   == Service("MIDI", l, d)
LinkService(l, d)   == Service("Link", l, d)
RangeService(l, d)  == Service("Range", l, d)
DeviceService(l, d) == Service("Device", l, d)

\* The end of loop(): the idle test, and Device.sleep() when it holds.
SleepCheck ==
  /\ cycle.pc = Len(CycleOrder) + 1
  /\ cycle' = [cycle EXCEPT
                 !.pc = 1, !.serviced = <<>>, !.n = @ + 1,
                 !.slept = sleeps(cycle.linkIdle, cycle.deviceIdle),
                 !.checked = [linkIdle |-> cycle.linkIdle,
                              deviceIdle |-> cycle.deviceIdle,
                              serviced |-> cycle.serviced]]
  /\ UNCHANGED <<configVars, routeVars, chain, deviceVars>>

----------------------------------------------------------------------------
(* Specifications                                                          *)

Init == InitConfig /\ InitRoute /\ chain = IdleChain /\ InitDevice /\ InitCycle

\* The routing of packets between USB, Plug and Socket.
Next ==
  \/ UsbConnect
  \/ UsbDisconnect
  \/ \E midi \in MidiPackets(nextId + 1) : MIDILoop(midi)
  \/ \E packet \in LinkPackets(nextId + 1) : LinkReceivePlug(packet)
  \/ \E packet \in LinkPackets(nextId + 1) : LinkReceiveSocket(packet)

Spec == Init /\ [][Next]_vars

\* Any sequence of imports, from the default configuration.
NextConfig == \E json \in Documents : Import(json)

SpecConfig == Init /\ [][NextConfig]_vars

\* One document imported again and again, on top of a configuration that
\* earlier imports have left.
PriorDocuments ==
  { EmptyDocument,
    [midi |-> TRUE, channel |-> 5, controller |-> 12,
     range |-> TRUE, min |-> 50, max |-> 1000, detect |-> 3000],
    [midi |-> TRUE, channel |-> 200, controller |-> 200,
     range |-> TRUE, min |-> 1000, max |-> 50, detect |-> 3001] }

InitTwice ==
  /\ config \in { importConfiguration(DefaultConfig, json) :
                    json \in PriorDocuments }
  /\ imports = 0
  /\ doc \in Documents
  /\ InitRoute
  /\ chain = IdleChain
  /\ InitDevice
  /\ InitCycle

NextTwice == Import(doc)

SpecTwice == InitTwice /\ [][NextTwice]_vars

\* A packet sent down a chain of devices and back.
InitChainSpec == InitConfig /\ InitRoute /\ InitChain /\ InitDevice /\ InitCycle

NextChain ==
  \/ HopDown
  \/ \E connected \in BOOLEAN : HopUp(connected)

SpecChain == InitChainSpec /\ [][NextChain]_vars

\* The device from power-on: setup, sensor updates, replies, control changes
\* and system resets from the dispatcher, imports of one document, and the
\* host connecting and disconnecting.
InitSensor ==
  /\ config = DefaultConfig
  /\ imports = 0
  /\ doc \in PriorDocuments
  /\ InitRoute
  /\ chain = IdleChain
  /\ hw \in BootHardware
  /\ lastUpdate = NoUpdate
  /\ sendOrder = <<>>
  /\ InitCycle

NextSensor ==
  \/ Setup
  \/ \E step \in Steps, fraction \in Fractions : SensorUpdate(step, fraction)
  \/ \E midi \in Replies : DeviceSend(midi)
  \/ \E controller \in Controllers : ControlChange(controller)
  \/ SystemReset
  \/ UsbConnect
  \/ UsbDisconnect
  \/ hw.started /\ Import(doc)

SpecSensor == InitSensor /\ [][NextSensor]_vars

\* The scheduling cycles of loop().
InitLoop ==
  /\ InitConfig /\ InitRoute /\ chain = IdleChain /\ InitDevice
  /\ cycle \in { StartOfCycle(l, d) : l \in BOOLEAN, d \in BOOLEAN }

NextLoop ==
  \/ \E l \in BOOLEAN, d \in BOOLEAN : LEDService(l, d)
  \/ \E l \in BOOLEAN, d \in BOOLEAN : MIDIService(l, d)
  \/ \E l \in BOOLEAN, d \in BOOLEAN : LinkService(l, d)
  \/ \E l \in BOOLEAN, d \in BOOLEAN : RangeService(l, d)
  \/ \E l \in BOOLEAN, d \in BOOLEAN : DeviceService(l, d)
  \/ SleepCheck

SpecLoop == InitLoop /\ [][NextLoop]_vars

----------------------------------------------------------------------------
(* Properties of the configuration (SpecConfig, SpecTwice)                 *)

\* C1: after any sequence of imports the stored range has min < max; a state
\* with max < min is not reachable.
RangeMinBelowMax == config.range.min < config.range.max

\* C2: after any sequence of imports the stored range has detect >= max.
RangeDetectAtLeastMax == config.range.detect >= config.range.max

\* C3: after any sequence of imports each of the stored min, max and detect
\* lies in 1..3000 millimeters.
RangeWithinLimits ==
  /\ config.range.min \in 1 .. MaxDistance
  /\ config.range.max \in 1 .. MaxDistance
  /\ config.range.detect \in 1 .. MaxDistance

\* C9: importing the document that exportConfiguration produces from a
\* configuration reached by imports leaves that configuration as it is.
RoundTrip == importConfiguration(config, exportConfiguration(config)) = config

\* A configuration that imports have clamped and reset, whose export carries a
\* one-based channel 16 and a max below min.
RoundTripWitness ==
  /\ imports > 0
  /\ config.channel = 15
  /\ config.controller = MaxController
  /\ config.range.max < config.range.min
  /\ exportConfiguration(config).channel = MaxChannel

\* C10: importing the same document a second time in a row changes nothing:
\* every import that follows an import of the same document leaves the
\* configuration as the first one left it.
ImportIdempotent == [][imports >= 1 => config' = config]_vars

\* The same out-of-range document has been imported twice.
ImportIdempotentWitness ==
  /\ imports = 2
  /\ doc.range /\ doc.min = 0 /\ doc.max = 3001 /\ doc.detect = 50
  /\ doc.controller = 200
  /\ config.controller = MaxController
  /\ config.range.min = DefaultMin
  /\ config.range.max = DefaultMax
  /\ config.range.detect = DefaultDetect

----------------------------------------------------------------------------
(* Properties of the routing (Spec)                                        *)

\* The handler that ran last made no call at all.
NothingSent ==
  usbOut = <<>> /\ socketOut = <<>> /\ plugOut = <<>> /\ dispatched = <<>>

\* C4: a MIDI packet received on the Socket with address 0xF is not sent on
\* USB, nothing else is sent or dispatched, and it is not kept in the buffer,
\* whether USB is connected or not.
TerminatorAbsorbing ==
  (lastIn.src = "socket" /\ lastIn.type = "MIDI" /\ lastIn.address = Terminator)
    => NothingSent /\ linkBuf.id # lastIn.midi.id

\* A terminator packet has arrived on the Socket while USB was connected.
TerminatorWitness ==
  /\ lastIn.src = "socket" /\ lastIn.type = "MIDI"
  /\ lastIn.address = Terminator
  /\ lastIn.usb
  /\ usbOut = <<>>

\* C5: a MIDI packet received on the Socket while USB is not connected is
\* dropped and not stored: in no later state, also after USB has reconnected,
\* is it among the packets sent to USB or in a packet buffer.
NoConnectionDrop ==
  /\ \A i \in DOMAIN usbOut : usbOut[i].id \notin dropped
  /\ linkBuf.id \notin dropped
  /\ midiBuf.id \notin dropped
  /\ (lastIn.src = "socket" /\ ~lastIn.usb => usbOut = <<>>)

\* A Socket packet was dropped, USB has reconnected, and a later Socket packet
\* was sent to USB.
NoConnectionDropWitness ==
  /\ dropped # {}
  /\ usbConnected
  /\ lastIn.src = "socket" /\ lastIn.usb
  /\ lastIn.midi.id \notin dropped
  /\ Len(usbOut) = 1

\* C6: a packet received from USB with port 0 is given to the local
\* dispatcher and not sent to the Socket; with port p > 0 it is sent to the
\* Socket with port p - 1 and the same payload, and not dispatched.  It takes
\* exactly one of the two routes.
UsbLocalRouting ==
  lastIn.src = "usb" =>
    /\ Len(dispatched) + Len(socketOut) = 1
    /\ usbOut = <<>> /\ plugOut = <<>>
    /\ IF lastIn.midi.port = 0
         THEN dispatched = <<[transport |-> "usb", midi |-> lastIn.midi]>>
         ELSE socketOut =
                <<[id |-> lastIn.midi.id, port |-> lastIn.midi.port - 1,
                   data |-> lastIn.midi.data]>>

\* A USB packet for port 15 has been forwarded to the Socket.
UsbLocalRoutingWitness ==
  /\ lastIn.src = "usb"
  /\ lastIn.midi.port = 15
  /\ Len(socketOut) = 1
  /\ socketOut[1].port = 14

\* C7: a MIDI packet received on the Socket with address a in 0..14 while
\* USB is connected is sent on USB exactly once, with port a + 1, and is not
\* given to the local dispatcher.
SocketForwarding ==
  (lastIn.src = "socket" /\ lastIn.type = "MIDI" /\ lastIn.usb
     /\ lastIn.address \in 0 .. 14)
    => /\ usbOut = <<[id |-> lastIn.midi.id, port |-> lastIn.address + 1,
                      data |-> lastIn.midi.data]>>
       /\ dispatched = <<>>
       /\ socketOut = <<>>

\* A Socket packet with address 0 has been sent to USB as port 1.
SocketForwardingWitness ==
  /\ lastIn.src = "socket" /\ lastIn.type = "MIDI" /\ lastIn.usb
  /\ lastIn.address = 0
  /\ Len(usbOut) = 1
  /\ usbOut[1].port = 1

----------------------------------------------------------------------------
(* Properties of the chain (SpecChain)                                     *)

\* C8: a packet with port N relayed down through K hops and bubbled back up
\* through K hops, 0 <= K <= N <= MaxN, arrives with port N and its payload.
PortInverse ==
  (chain.down = chain.k /\ chain.up = chain.k /\ ~chain.lost)
    => /\ chain.midi.port = chain.n
       /\ chain.midi.data \in Data

\* A packet for port 14 has gone down 14 hops, to port 0, and come back.
PortInverseWitness ==
  /\ chain.n = 14 /\ chain.k = 14
  /\ chain.down = 14 /\ chain.up = 14
  /\ ~chain.lost

----------------------------------------------------------------------------
(* Properties of one import (SpecTwice)                                    *)

\* C11: a range block (min, max, detect) is stored as min' = 10 if min is 0
\* or above 3000, else min; max' = 500 if max < min' or max is above 3000,
\* else max; detect' = 600 if detect < max', else detect.  So min 0, max 4000,
\* detect 50 is stored as 10, 500, 600.
RangeValidation ==
  /\ (imports >= 1 /\ doc.range
        /\ doc.min # Null /\ doc.max # Null /\ doc.detect # Null)
       => LET mn == IF doc.min = 0 \/ doc.min > 3000 THEN 10 ELSE doc.min
              mx == IF doc.max < mn \/ doc.max > 3000 THEN 500 ELSE doc.max
              dt == IF doc.detect < mx THEN 600 ELSE doc.detect
          IN  /\ config.range.min = mn
              /\ config.range.max = mx
              /\ config.range.detect = dt
  /\ LET r == importConfiguration(config,
                 [doc EXCEPT !.range = TRUE, !.min = 0, !.max = 4000,
                             !.detect = 50]).range
     IN  r.min = 10 /\ r.max = 500 /\ r.detect = 600

\* A block whose max is reset and whose detect is kept has been imported.
RangeValidationWitness ==
  /\ imports = 1
  /\ doc.range /\ doc.min = 1000 /\ doc.max = 3001 /\ doc.detect = 3000
  /\ config.range.min = 1000
  /\ config.range.max = 500
  /\ config.range.detect = 3000

\* clamp(c, 1, 16) - 1
ClampedChannel(c) == (IF c < 1 THEN 1 ELSE IF c > 16 THEN 16 ELSE c) - 1

\* C12: a supplied midi.channel c, an 8-bit value, is stored as
\* clamp(c, 1, 16) - 1, and the stored channel is always in 0..15.  The last
\* conjunct supplies every c in 0..255 to every document without a channel.
ChannelImport ==
  /\ config.channel \in 0 .. 15
  /\ (imports >= 1 /\ doc.midi /\ doc.channel # Null)
       => config.channel = ClampedChannel(doc.channel)
  /\ (imports = 0 /\ doc.channel = Null)
       => \A c \in 0 .. 255 :
            importConfiguration(config,
              [doc EXCEPT !.midi = TRUE, !.channel = c]).channel
                = ClampedChannel(c)

\* Channel 200 has been imported and is stored as 15.
ChannelImportWitness ==
  /\ imports = 1
  /\ doc.midi /\ doc.channel = 200
  /\ config.channel = 15

\* C13: a supplied controller above 127 is stored as 127, one in 0..127 as
\* given, and the stored controller is always in 0..127.  The last conjunct
\* supplies every value in 0..255 to every document without a controller.
ControllerImport ==
  /\ config.controller \in 0 .. 127
  /\ (imports >= 1 /\ doc.controller # Null)
       => config.controller =
            (IF doc.controller > 127 THEN 127 ELSE doc.controller)
  /\ (imports = 0 /\ doc.controller = Null)
       => \A c \in 0 .. 255 :
            importConfiguration(config,
              [doc EXCEPT !.controller = c]).controller
                = (IF c > 127 THEN 127 ELSE c)

\* Controller 200 has been imported and is stored as 127.
ControllerImportWitness ==
  /\ imports = 1
  /\ doc.controller = 200
  /\ config.controller = 127

\* C18: an import changes only the fields whose key the document carries:
\* without midi.channel the channel stays, without controller the controller
\* stays, without the range block min, max and detect stay; n_steps, alpha
\* and lag never change.
ImportFrame ==
  [][ /\ (~(doc.midi /\ doc.channel # Null)
            => config'.channel = config.channel)
      /\ (doc.controller = Null => config'.controller = config.controller)
      /\ (~doc.range => config'.range = config.range)
      /\ config'.range.n_steps = config.range.n_steps
      /\ config'.range.alpha = config.range.alpha
      /\ config'.range.lag = config.range.lag ]_vars

\* A document with a controller only has been imported on top of a
\* configuration with channel 4, controller 12 and the range 50, 1000, 3000.
ImportFrameWitness ==
  /\ imports = 1
  /\ ~doc.midi /\ ~doc.range /\ doc.controller = 200
  /\ config.controller = 127
  /\ config.channel = 4
  /\ config.range.min = 50 /\ config.range.max = 1000
  /\ config.range.detect = 3000
  /\ config.range.n_steps = 128

\* The document with 0 in the place of every key missing from a range block.
ZeroFilled(json) ==
  [json EXCEPT !.min = IF @ = Null THEN 0 ELSE @,
               !.max = IF @ = Null THEN 0 ELSE @,
               !.detect = IF @ = Null THEN 0 ELSE @]

\* C19: in a range block that is present, a missing min, max or detect is
\* read as 0 and so reset to its default 10, 500 or 600, not kept; the block
\* is stored as if the missing keys were 0.
PartialRange ==
  (imports >= 1 /\ doc.range)
    => /\ (doc.min = Null => config.range.min = 10)
       /\ (doc.max = Null => config.range.max = 500)
       /\ (doc.detect = Null => config.range.detect = 600)
       /\ config.range = importConfiguration(config, ZeroFilled(doc)).range

\* A block without max has been imported: max is 500, min and detect are
\* the document's.
PartialRangeWitness ==
  /\ imports = 1
  /\ doc.range /\ doc.min = 50 /\ doc.max = Null /\ doc.detect = 3000
  /\ config.range.min = 50
  /\ config.range.max = 500
  /\ config.range.detect = 3000

----------------------------------------------------------------------------
(* Properties of the Plug route (Spec)                                     *)

\* C17: a MIDI packet received on the Plug is given to the local dispatcher,
\* whatever its address and port, and sent nowhere; a Plug packet of another
\* type is neither dispatched nor sent.  The packets received carry every
\* address; the last conjunct gives the received packet every port.
PlugRouting ==
  lastIn.src = "plug" =>
    /\ usbOut = <<>> /\ socketOut = <<>> /\ plugOut = <<>>
    /\ IF lastIn.type = "MIDI"
         THEN dispatched = <<[transport |-> "plug", midi |-> lastIn.midi]>>
         ELSE dispatched = <<>>
    /\ \A p \in Ports :
         LET m == [lastIn.midi EXCEPT !.port = p]
             e == receivePlug(linkBuf,
                              [type |-> "MIDI", address |-> lastIn.address,
                               midi |-> m])
         IN  /\ e.dispatch = <<[transport |-> "plug", midi |-> m]>>
             /\ e.usb = <<>> /\ e.socket = <<>>

\* A MIDI packet with the terminator address has arrived on the Plug and
\* was dispatched.
PlugRoutingWitness ==
  /\ lastIn.src = "plug" /\ lastIn.type = "MIDI"
  /\ lastIn.address = Terminator
  /\ Len(dispatched) = 1
  /\ dispatched[1].transport = "plug"

----------------------------------------------------------------------------
(* Properties of the device and the sensor (SpecSensor)                    *)

\* C14: a sensor update with step s emits one control change with the
\* channel and the controller configured at the time of the update and the
\* value s.
SensorProjection ==
  lastIn.src = "sensor" =>
    LET event == [id |-> 0, port |-> 0,
                  data |-> [type |-> "cc",
                            channel |-> lastUpdate.config.channel,
                            controller |-> lastUpdate.config.controller,
                            value |-> lastUpdate.step]]
    IN  usbOut = <<event>> /\ plugOut = <<event>> /\ socketOut = <<>>

\* Step 42 has been reported with channel 4 and controller 12 imported.
SensorProjectionWitness ==
  /\ lastIn.src = "sensor"
  /\ imports > 0
  /\ lastUpdate.step = 42
  /\ lastUpdate.config.channel = 4 /\ lastUpdate.config.controller = 12
  /\ Len(usbOut) = 1
  /\ usbOut[1].data =
       [type |-> "cc", channel |-> 4, controller |-> 12, value |-> 42]

\* C15, as claimed: in the reset state, after Device::reset(), the sensor is
\* not enabled and no sensor update emits.
SilentInReset ==
  /\ hw.inReset => ~hw.sensor
  /\ lastIn.src = "sensor" => ~lastUpdate.inReset

\* C15, amended: Device::reset() leaves the sensor enable state as it is, so
\* the sensor that setup() has enabled stays enabled in the reset state; a
\* sensor update emits only while the sensor is enabled, never before setup().
ResetKeepsSensor ==
  /\ hw.started => hw.sensor
  /\ ~hw.started => (lastIn.src # "sensor" /\ usbOut = <<>> /\ plugOut = <<>>)
  /\ lastIn.src = "sensor" => lastUpdate.sensor

\* A sensor update has emitted an event in the reset state.
ResetKeepsSensorWitness ==
  /\ hw.inReset /\ hw.sensor
  /\ lastIn.src = "sensor" /\ lastUpdate.inReset
  /\ Len(usbOut) = 1 /\ Len(plugOut) = 1

\* C20: an event of the device itself, a sensor control change or a reply
\* sent with Device.send(), goes to the USB endpoint and then to the Plug,
\* never to the Socket, whether USB is connected or not.
LocalSend ==
  lastIn.src \in {"sensor", "device"} =>
    /\ Len(usbOut) = 1
    /\ plugOut = usbOut
    /\ socketOut = <<>>
    /\ sendOrder = <<"usb", "plug">>

\* A sensor event has been sent to both while USB was not connected.
LocalSendWitness ==
  /\ lastIn.src = "sensor" /\ ~lastIn.usb
  /\ Len(usbOut) = 1 /\ Len(plugOut) = 1
  /\ sendOrder = <<"usb", "plug">>

----------------------------------------------------------------------------
(* Properties of the scheduling cycle (SpecLoop)                           *)

\* C16: Device.sleep() is called at the end of a cycle only if the LED, USB
\* MIDI, Link, sensor and Device were serviced in this order and both the
\* Link and the Device then report idle; otherwise it is not called.
SleepOnlyIdle ==
  cycle.n > 0 =>
    /\ cycle.checked.serviced = <<"LED", "MIDI", "Link", "Range", "Device">>
    /\ cycle.slept => (cycle.checked.linkIdle /\ cycle.checked.deviceIdle)
    /\ ~(cycle.checked.linkIdle /\ cycle.checked.deviceIdle) => ~cycle.slept

\* A cycle has ended in Device.sleep().
SleepOnlyIdleWitness ==
  /\ cycle.n > 0
  /\ cycle.slept
  /\ cycle.checked.linkIdle /\ cycle.checked.deviceIdle

====
